---- MODULE Spec2Model ----
(***************************************************************************)
(* The interactive part of tutorial_solution.py (sections 3 and 4): the    *)
(* sidebar widgets and the year slider, the bubble chart, the Start/Stop   *)
(* animation over the years and the selection join that feeds the          *)
(* connected scatterplot.                                                  *)
(*                                                                         *)
(* The script is a Streamlit script: every widget event reruns it from the *)
(* top.  What survives a rerun is st.session_state and the widgets' own    *)
(* values; keys, text and the charts are rebuilt by each run.  A widget    *)
(* event that arrives while a run is still executing ends that run at its  *)
(* next st.* call, before that call has any effect, and starts the next    *)
(* run.  A run is therefore a sequence of steps, each one ending before an *)
(* st.* call, and an event may come between any two of them:               *)
(*   "l87"   the widgets of lines 87-103 (the slider is the last of them)  *)
(*   "l115"  st.empty of line 115, after keys is built                     *)
(*   "l116"  text.markdown of line 116                                     *)
(*   "l150"  st.altair_chart of line 150                                   *)
(*   "l165"  the buttons of lines 165-170, then minmaxYear and the test of *)
(*           start, and the test of stop when the loop does not run        *)
(*   "l175", "l178"  the two calls of an iteration of the animation; the   *)
(*           test of stop follows the last iteration                       *)
(*   "l183"  new_chart.altair_chart of the stop handler, after line 182    *)
(*   "l207"  altair_component                                              *)
(*   "l212"  st.success and the rest of the selection branch               *)
(* st.* calls that share a step (lines 87-103, 165-170, 212-224) leave the  *)
(* same state whichever of them the run is cut at.                         *)
(*                                                                         *)
(* A button returns True in the run its press began.  A press that arrives *)
(* while the rerun of an earlier event is still pending is merged with it: *)
(* the one run that follows sees the values of both events, so start and   *)
(* stop can both be True in a run.                                         *)
(***************************************************************************)
EXTENDS Integers, Sequences, FiniteSets, TLC

VARIABLES
    df,             \* the loaded table (line 23): a set of rows
    x_sel,          \* sidebar selectbox 'X-axis' (line 87)
    x_log,          \* sidebar checkbox 'Log scale on x-axis' (line 88)
    y_sel,          \* sidebar selectbox 'Y-axis' (line 90)
    y_log,          \* sidebar checkbox 'Log scale on y-axis' (line 91)
    countries_sel,  \* sidebar multiselect 'Countries' (line 95)
    slider,         \* the year slider widget: [default, value] (lines 100-103)
    session_year,   \* st.session_state: {} when 'year' is absent, {v} when present
    keys,           \* the dict keys of the running script (lines 106-112)
    text,           \* the element text: the year text.markdown shows (lines 116,
                    \* 175), Blank while it is the placeholder of line 115
    new_chart,      \* the chart held by the element new_chart (lines 150, 178, 183)
    selection,      \* what altair_component returned (line 207): the constraints
                    \* of the selected points
    component,      \* the chart shown by altair_component (line 207)
    component_value,\* the value the component holds on the page: the constraints
                    \* of the points the user has selected in it
    c,              \* the countries matched by the selection (line 220)
    notice,         \* what the current run surfaced: "none", "success", "exception"
    first,          \* minmaxYear's result of the current run (line 172)
    last,
    y,              \* the loop variable of line 174 (range's start outside the loop)
    pc,             \* "done": the run ended; "l87", "l115", "l116", "l150",
                    \* "l165", "l175", "l178", "l183", "l207", "l212": the
                    \* st.* call the run executes next
    start,          \* what st.button("Start") returns in the current run (line 168)
    stop,           \* what st.button("Stop") returns in the current run (line 170)
    emitted,        \* the years of the charts emitted with global_max=True in
                    \* this run (lines 178 and 183), in the order of the calls
    nevents         \* the number of widget events of the session so far

vars == <<df, x_sel, x_log, y_sel, y_log, countries_sel, slider, session_year,
          keys, text, new_chart, selection, component, component_value, c,
          notice, first, last, y, pc, start, stop, emitted, nevents>>

----------------------------------------------------------------------------
\* The slider of lines 101 and 103: st.slider('Year', 1960, 2020, default).
SliderMin == 1960
SliderMax == 2020
SliderDefault == 2015

\* pandas' NaN: a missing cell, and the min or max of an empty column.
NaN == -1

\* The element st.empty() leaves (line 115): a placeholder that shows nothing.
Blank == 0

\* Bounds of the tables the model loads.
FirstDataYear == 2014
NumDataYears == 2
MaxRows == 2

\* Bound of the session: the widget events the user makes.
MaxEvents == 3

DataYears == FirstDataYear .. (FirstDataYear + NumDataYears - 1)
Countries == {"A", "B"}
Indicators == {"GDP", "Life"}

\* The rows a table may hold: Country, Year, two indicator columns, either
\* possibly missing, and the population column.
Rows(countries, years, gdps) ==
    { [Country |-> cn, Year |-> yr, GDP |-> g, Life |-> l, Pop |-> 100] :
        cn \in countries, yr \in years, g \in gdps, l \in {NaN, 1} }

\* The table has one row per country and year.
IsTable(rows) ==
    \A r1 \in rows, r2 \in rows :
        (r1.Country = r2.Country /\ r1.Year = r2.Year) => r1 = r2

\* The tables of at most n rows.
RECURSIVE TablesUpTo(_, _)
TablesUpTo(rows, n) ==
    IF n = 0 THEN {{}}
    ELSE LET smaller == TablesUpTo(rows, n - 1)
         IN  smaller \cup { t \in { t0 \cup {r} : t0 \in smaller, r \in rows } : IsTable(t) }

\* The tables of the pure-function checks: two countries, two years, up to
\* MaxRows rows.
Tables ==
    TablesUpTo(Rows(Countries, {FirstDataYear, FirstDataYear + 1}, {NaN, 10, 20}),
               MaxRows)

\* The tables of the interactive session: one country and a row for every
\* year; GDP is recorded from the year a on, possibly in no year, and Life up
\* to the year b: in no year, in the first year only, or in every year.  The
\* years of a table lie within the range of the slider.
Panels ==
    { { [Country |-> "A", Year |-> yr, GDP |-> IF yr >= a THEN 10 ELSE NaN,
         Life |-> IF yr <= b THEN 1 ELSE NaN, Pop |-> 100] : yr \in DataYears } :
        a \in FirstDataYear .. (FirstDataYear + NumDataYears),
        b \in {FirstDataYear - 1, FirstDataYear, FirstDataYear + NumDataYears - 1} }

----------------------------------------------------------------------------
\* Series.isna()
isna(v) == v = NaN

\* Series.min() and Series.max(): missing cells are skipped, NaN when none is left.
SeriesMin(rows, col) ==
    LET vs == { r[col] : r \in { q \in rows : ~isna(q[col]) } }
    IN  IF vs = {} THEN NaN ELSE CHOOSE m \in vs : \A v \in vs : m <= v

SeriesMax(rows, col) ==
    LET vs == { r[col] : r \in { q \in rows : ~isna(q[col]) } }
    IN  IF vs = {} THEN NaN ELSE CHOOSE m \in vs : \A v \in vs : m >= v

\* Python's max(a, b) and min(a, b): b replaces a only when b > a (b < a) is
\* true, and every comparison with NaN is false.
PyMax(a, b) == IF ~isna(a) /\ ~isna(b) /\ b > a THEN b ELSE a
PyMin(a, b) == IF ~isna(a) /\ ~isna(b) /\ b < a THEN b ELSE a

\* The scale of one axis (lines 127-133): the domain [min, max] of the column
\* over every year when global_max, left to the renderer otherwise; the type
\* is 'log' when the axis' checkbox is ticked and the renderer's otherwise.
AutoScale == <<>>
Scale(rows, col, global_max, log) ==
    [ domain |-> IF global_max THEN <<SeriesMin(rows, col), SeriesMax(rows, col)>>
                 ELSE AutoScale,
      type   |-> IF log THEN "log" ELSE "linear" ]

\* plotBubbleChart without the test of the y column.
plotBubbleChart_dropY(d, k, global_max) ==
    LET d1 == IF Cardinality(k.countries) > 0
              THEN { r \in d : r.Country \in k.countries }
              ELSE d
        source0 == { r \in d1 : r.Year = k.year }
        source == { r \in source0 : ~isna(r[k.x]) }
    IN  [ source |-> source, x |-> k.x, y |-> k.y,
          selected |-> [ keys |-> k, global_max |-> global_max ],
          x_scale |-> Scale(d1, k.x, global_max, k.x_log),
          y_scale |-> Scale(d1, k.y, global_max, k.y_log),
          size_scale |-> Scale(d1, "Pop", global_max, FALSE) ]

\* plotBubbleChart with the domains taken after the rows of the year are selected.
plotBubbleChart_frameScale(d, k, global_max) ==
    LET d1 == IF Cardinality(k.countries) > 0
              THEN { r \in d : r.Country \in k.countries }
              ELSE d
        source0 == { r \in d1 : r.Year = k.year }
        source == { r \in source0 : ~isna(r[k.x]) /\ ~isna(r[k.y]) }
    IN  [ source |-> source, x |-> k.x, y |-> k.y,
          selected |-> [ keys |-> k, global_max |-> global_max ],
          x_scale |-> Scale(source0, k.x, global_max, k.x_log),
          y_scale |-> Scale(source0, k.y, global_max, k.y_log),
          size_scale |-> Scale(source0, "Pop", global_max, FALSE) ]

\* plotBubbleChart (lines 120-148): the rows the chart is drawn from, its
\* three scales and its selection.  alt.selection_multi (line 138) names the
\* selection anew at every call, and st.cache (line 119) returns the chart of
\* the first call for the same arguments: the selection of a chart is
\* identified by the arguments the chart was built for.
plotBubbleChart(d, k, global_max) ==
    LET d1 == IF Cardinality(k.countries) > 0
              THEN { r \in d : r.Country \in k.countries }
              ELSE d
        source0 == { r \in d1 : r.Year = k.year }
        source == { r \in source0 : ~isna(r[k.x]) /\ ~isna(r[k.y]) }
    IN  [ source |-> source, x |-> k.x, y |-> k.y,
          selected |-> [ keys |-> k, global_max |-> global_max ],
          x_scale |-> Scale(d1, k.x, global_max, k.x_log),
          y_scale |-> Scale(d1, k.y, global_max, k.y_log),
          size_scale |-> Scale(d1, "Pop", global_max, FALSE) ]

\* minmaxYear with min and max exchanged: the union of the two ranges.
minmaxYear_union(d, x, yy) ==
    LET temp_x == { r \in d : ~isna(r[x]) }
        temp_y == { r \in d : ~isna(r[yy]) }
    IN  [ first |-> PyMin(SeriesMin(temp_x, "Year"), SeriesMin(temp_y, "Year")),
          last  |-> PyMax(SeriesMax(temp_x, "Year"), SeriesMax(temp_y, "Year")) ]

\* minmaxYear (lines 155-162).
minmaxYear(d, x, yy) ==
    LET temp_x == { r \in d : ~isna(r[x]) }
        temp_y == { r \in d : ~isna(r[yy]) }
    IN  [ first |-> PyMax(SeriesMin(temp_x, "Year"), SeriesMin(temp_y, "Year")),
          last  |-> PyMin(SeriesMax(temp_x, "Year"), SeriesMax(temp_y, "Year")) ]

\* The countries matched by a selection (lines 216-220): s[keys['x']] is the
\* column of the constraints' values of the x field.
matchCountries(d, k, sel) ==
    LET sx == { p.x : p \in sel }
    IN  { r.Country : r \in { q \in d : q.Year = k.year /\ q[k.x] \in sx } }

\* The constraint the renderer reports for a clicked point of a chart: the
\* point's values of the x, y and size fields.
Constraint(ch, r) == [ x |-> r[ch.x], y |-> r[ch.y], size |-> r.Pop ]

----------------------------------------------------------------------------
\* Lines 207-210, for the final keys k: the component is drawn; it keeps its
\* value when the chart is the one it showed (the same specification, its
\* selection included), and is another component, with an empty value, for
\* another chart.  The run ends here when the value is empty.
Interact(k) ==
    LET comp == plotBubbleChart(df, k, FALSE)
        sel  == IF comp # component THEN {} ELSE component_value
    IN  /\ component' = comp
        /\ component_value' = sel
        /\ selection' = sel
        /\ IF sel # {}
           THEN /\ pc' = "l212"
                /\ UNCHANGED <<notice, c>>
           ELSE /\ pc' = "done"
                /\ notice' = "none"
                /\ c' = {}

\* The year slider (lines 100-103) with the default d.  A slider with
\* another default than the one on the page is another widget and shows its
\* default; otherwise it shows the year the user left it at.
SliderYear(d) == IF d # slider.default THEN d ELSE slider.value

\* Stop that keeps the year of the slider.
StopKeys_current(k, persisted) == k

\* keys['year'] = st.session_state.year (line 182)
StopKeys(k, persisted) == [ k EXCEPT !.year = persisted ]

\* The values the widgets of the page hold.
Widgets ==
    [ x |-> x_sel, x_log |-> x_log, y |-> y_sel, y_log |-> y_log,
      countries |-> countries_sel, year |-> slider.value,
      value |-> component_value ]

\* A widget event that leaves the widgets' values w: the run in progress, if
\* any, is ended and the script is run again from the top.  When the run of
\* the event before has not executed a call yet, either it had begun, and the
\* presses it carried are lost with it, or its rerun was still pending and is
\* merged with this one, which keeps them.
Rerun(kind, w) ==
    /\ nevents < MaxEvents
    /\ \E merged \in BOOLEAN :
          /\ merged => pc = "l87"
          /\ start' = ((kind = "start") \/ (merged /\ start))
          /\ stop' = ((kind = "stop") \/ (merged /\ stop))
    /\ nevents' = nevents + 1
    /\ x_sel' = w.x
    /\ x_log' = w.x_log
    /\ y_sel' = w.y
    /\ y_log' = w.y_log
    /\ countries_sel' = w.countries
    /\ slider' = [ slider EXCEPT !.value = w.year ]
    /\ component_value' = w.value
    /\ emitted' = <<>>
    /\ notice' = "none"
    /\ pc' = "l87"
    /\ UNCHANGED <<df, session_year, keys, text, new_chart, selection, component,
                   c, first, last, y>>

\* Lines 87-112: the widgets return their values, the slider is drawn with
\* the persisted year as its default when there is one, and keys is built.
RunWidgets ==
    LET d  == IF session_year = {} THEN SliderDefault
              ELSE CHOOSE v \in session_year : TRUE
        yr == SliderYear(d)
    IN  /\ pc = "l87"
        /\ slider' = [ default |-> d, value |-> yr ]
        /\ keys' = [ x |-> x_sel, y |-> y_sel, x_log |-> x_log, y_log |-> y_log,
                     year |-> yr, countries |-> countries_sel ]
        /\ pc' = "l115"
        /\ UNCHANGED <<df, x_sel, x_log, y_sel, y_log, countries_sel,
                       session_year, text, new_chart, selection, component,
                       component_value, c, notice, first, last, y, start, stop,
                       emitted, nevents>>

\* text = st.empty() (line 115)
RunEmpty ==
    /\ pc = "l115"
    /\ text' = Blank
    /\ pc' = "l116"
    /\ UNCHANGED <<df, x_sel, x_log, y_sel, y_log, countries_sel, slider,
                   session_year, keys, new_chart, selection, component,
                   component_value, c, notice, first, last, y, start,
                   stop, emitted, nevents>>

\* text.markdown("Year: {}".format(year)) (line 116)
RunLabel ==
    /\ pc = "l116"
    /\ text' = keys.year
    /\ pc' = "l150"
    /\ UNCHANGED <<df, x_sel, x_log, y_sel, y_log, countries_sel, slider,
                   session_year, keys, new_chart, selection, component,
                   component_value, c, notice, first, last, y, start, stop, emitted,
                   nevents>>

\* new_chart = st.altair_chart(plotBubbleChart(df, keys)) (line 150)
RunChart ==
    /\ pc = "l150"
    /\ new_chart' = plotBubbleChart(df, keys, FALSE)
    /\ pc' = "l165"
    /\ UNCHANGED <<df, x_sel, x_log, y_sel, y_log, countries_sel, slider,
                   session_year, keys, text, selection, component,
                   component_value, c, notice, first, last, y, start, stop, emitted,
                   nevents>>

\* Lines 181-182, for the keys k the run has come to: the handler of stop
\* runs when stop is True and a year is persisted.
StopTest(k) ==
    IF stop /\ session_year # {}
    THEN /\ keys' = StopKeys(k, CHOOSE v \in session_year : TRUE)
         /\ pc' = "l183"
    ELSE /\ keys' = k
         /\ pc' = "l207"

\* Lines 165-174: the buttons, minmaxYear and the test of start; lines 181-182
\* follow at once when the loop does not run.
RunButtons ==
    LET mm == minmaxYear(df, keys.x, keys.y)
    IN  /\ pc = "l165"
        /\ first' = mm.first
        /\ last' = mm.last
        /\ y' = mm.first
        /\ IF start /\ (isna(mm.first) \/ isna(mm.last))
           THEN \* range(first, last+1) raises TypeError
                /\ notice' = "exception"
                /\ keys' = keys
                /\ pc' = "done"
           ELSE IF start /\ mm.first <= mm.last
           THEN /\ notice' = notice
                /\ keys' = keys
                /\ pc' = "l175"
           ELSE \* start is False, or the loop has no iteration
                /\ notice' = notice
                /\ StopTest(keys)
        /\ UNCHANGED <<df, x_sel, x_log, y_sel, y_log, countries_sel, slider,
                       session_year, text, new_chart, selection, component,
                       component_value, c, start, stop, emitted, nevents>>

\* new_chart.altair_chart(plotBubbleChart(df, keys, True)) (line 183)
RunStop ==
    /\ pc = "l183"
    /\ new_chart' = plotBubbleChart(df, keys, TRUE)
    /\ emitted' = Append(emitted, keys.year)
    /\ pc' = "l207"
    /\ UNCHANGED <<df, x_sel, x_log, y_sel, y_log, countries_sel, slider,
                   session_year, keys, text, selection, component,
                   component_value, c, notice, first, last, y, start, stop, nevents>>

----------------------------------------------------------------------------
\* The page after the first run of the script: no widget has been touched and
\* st.session_state is empty.
InitKeys ==
    [ x |-> "GDP", y |-> "Life", x_log |-> TRUE, y_log |-> FALSE,
      year |-> SliderDefault, countries |-> {} ]

Init ==
    /\ df \in Panels
    /\ x_sel = "GDP"
    /\ x_log = TRUE
    /\ y_sel = "Life"
    /\ y_log = FALSE
    /\ countries_sel = {}
    /\ slider = [ default |-> SliderDefault, value |-> SliderDefault ]
    /\ session_year = {}
    /\ keys = InitKeys
    /\ text = SliderDefault
    /\ new_chart = plotBubbleChart(df, InitKeys, FALSE)
    /\ selection = {}
    /\ component_value = {}
    /\ component = plotBubbleChart(df, InitKeys, FALSE)
    /\ c = {}
    /\ notice = "none"
    /\ first = minmaxYear(df, "GDP", "Life").first
    /\ last = minmaxYear(df, "GDP", "Life").last
    /\ y = minmaxYear(df, "GDP", "Life").first
    /\ pc = "done"
    /\ start = FALSE
    /\ stop = FALSE
    /\ emitted = <<>>
    /\ nevents = 0

\* The years the user drags the slider to: the slider's first year and the
\* years of the table.
ScrubYears == {SliderMin} \cup DataYears

\* The user drags the year slider to v.
Scrub(v) ==
    /\ v \in SliderMin .. SliderMax
    /\ v # slider.value
    /\ Rerun("widget", [ Widgets EXCEPT !.year = v ])

\* The user picks another indicator in a sidebar selectbox.
SelectX(i) ==
    /\ i # x_sel
    /\ Rerun("widget", [ Widgets EXCEPT !.x = i ])

SelectY(i) ==
    /\ i # y_sel
    /\ Rerun("widget", [ Widgets EXCEPT !.y = i ])

\* The user ticks or unticks a log-scale checkbox.
ToggleXLog == Rerun("widget", [ Widgets EXCEPT !.x_log = ~x_log ])

ToggleYLog == Rerun("widget", [ Widgets EXCEPT !.y_log = ~y_log ])

\* The user changes the multiselect; its options are set(df['Country']).
SelectCountries(cs) ==
    /\ cs # countries_sel
    /\ cs \subseteq { r.Country : r \in df }
    /\ Rerun("widget", [ Widgets EXCEPT !.countries = cs ])

\* The user presses Start or Stop.
PressStart == Rerun("start", Widgets)

PressStop == Rerun("stop", Widgets)

\* The user selects points of the chart the component shows.
Brush(points) ==
    LET sel == { Constraint(component, r) : r \in points }
    IN  /\ points # {}
        /\ points \subseteq component.source
        /\ sel # component_value
        /\ Rerun("widget", [ Widgets EXCEPT !.value = sel ])

\* The user clears the selection (a click outside the points).
ClearSelection ==
    /\ component_value # {}
    /\ Rerun("widget", [ Widgets EXCEPT !.value = {} ])

\* The iteration without the write to st.session_state.
StepLabel_noPersist ==
    /\ pc = "l175"
    /\ text' = y
    /\ keys' = [ keys EXCEPT !.year = y ]
    /\ pc' = "l178"
    /\ UNCHANGED <<df, x_sel, x_log, y_sel, y_log, countries_sel, slider,
                   session_year, new_chart, selection, component,
                   component_value, c, notice, first, last, y, start, stop, emitted,
                   nevents>>

\* Lines 175-177 of one iteration of the animation loop.
StepLabel ==
    /\ pc = "l175"
    /\ text' = y
    /\ session_year' = {y}
    /\ keys' = [ keys EXCEPT !.year = y ]
    /\ pc' = "l178"
    /\ UNCHANGED <<df, x_sel, x_log, y_sel, y_log, countries_sel, slider,
                   new_chart, selection, component, component_value, c, notice,
                   first, last, y, start, stop, emitted, nevents>>

\* The loop running over range(first, last+2).
StepChart_offByOne ==
    /\ pc = "l178"
    /\ new_chart' = plotBubbleChart(df, keys, TRUE)
    /\ emitted' = Append(emitted, keys.year)
    /\ IF y <= last
       THEN /\ y' = y + 1
            /\ keys' = keys
            /\ pc' = "l175"
       ELSE /\ y' = y
            /\ StopTest(keys)
    /\ UNCHANGED <<df, x_sel, x_log, y_sel, y_log, countries_sel, slider,
                   session_year, text, selection, component, component_value,
                   c, notice, first, last, start, stop, nevents>>

\* Lines 178-179 of the iteration, then the next iteration or, after the
\* last one, lines 181-182.
StepChart ==
    /\ pc = "l178"
    /\ new_chart' = plotBubbleChart(df, keys, TRUE)
    /\ emitted' = Append(emitted, keys.year)
    /\ IF y < last
       THEN /\ y' = y + 1
            /\ keys' = keys
            /\ pc' = "l175"
       ELSE /\ y' = y
            /\ StopTest(keys)
    /\ UNCHANGED <<df, x_sel, x_log, y_sel, y_log, countries_sel, slider,
                   session_year, text, selection, component, component_value,
                   c, notice, first, last, start, stop, nevents>>

\* The call of altair_component and the test of its value (lines 207-210).
Finish ==
    /\ pc = "l207"
    /\ Interact(keys)
    /\ UNCHANGED <<df, x_sel, x_log, y_sel, y_log, countries_sel, slider,
                   session_year, keys, text, new_chart, first, last, y, start, stop,
                   emitted, nevents>>

\* The branch of a selection that is not empty (lines 212-224).
Match ==
    /\ pc = "l212"
    /\ notice' = "success"
    /\ c' = matchCountries(df, keys, selection)
    /\ pc' = "done"
    /\ UNCHANGED <<df, x_sel, x_log, y_sel, y_log, countries_sel, slider,
                   session_year, keys, text, new_chart, selection, component,
                   component_value, first, last, y, start, stop, emitted, nevents>>

Next ==
    \/ \E v \in ScrubYears : Scrub(v)
    \/ \E i \in Indicators : SelectX(i)
    \/ \E i \in Indicators : SelectY(i)
    \/ ToggleXLog
    \/ ToggleYLog
    \/ \E cs \in SUBSET Countries : SelectCountries(cs)
    \/ PressStart
    \/ PressStop
    \/ \E points \in SUBSET component.source : Brush(points)
    \/ ClearSelection
    \/ RunWidgets
    \/ RunEmpty
    \/ RunLabel
    \/ RunChart
    \/ RunButtons
    \/ RunStop
    \/ StepLabel
    \/ StepChart
    \/ Finish
    \/ Match

Spec == Init /\ [][Next]_vars

\* The steps of the script thread: a run that no event ends goes on to its
\* next call.
RunStep ==
    \/ RunWidgets
    \/ RunEmpty
    \/ RunLabel
    \/ RunChart
    \/ RunButtons
    \/ RunStop
    \/ StepLabel
    \/ StepChart
    \/ Finish
    \/ Match

SpecLive == Init /\ [][Next]_vars /\ WF_vars(RunStep)

----------------------------------------------------------------------------
\* The functions of the script applied once to inputs of their own: a table
\* of the two-country family and any keys the widgets can produce.
NoChart == plotBubbleChart({}, InitKeys, FALSE)

FnKeys ==
    [ x : Indicators, y : Indicators, x_log : BOOLEAN, y_log : BOOLEAN,
      year : ScrubYears, countries : SUBSET Countries ]

InitFn ==
    /\ df \in Tables
    /\ keys \in FnKeys
    /\ x_sel = keys.x
    /\ x_log = keys.x_log
    /\ y_sel = keys.y
    /\ y_log = keys.y_log
    /\ countries_sel = keys.countries
    /\ slider = [ default |-> SliderDefault, value |-> keys.year ]
    /\ session_year = {}
    /\ text = keys.year
    /\ new_chart = NoChart
    /\ selection = {}
    /\ component_value = {}
    /\ component = NoChart
    /\ c = {}
    /\ notice = "none"
    /\ first = NaN
    /\ last = NaN
    /\ y = NaN
    /\ pc = "fn"
    /\ start = FALSE
    /\ stop = FALSE
    /\ emitted = <<>>
    /\ nevents = 0

\* new_chart = plotBubbleChart(df, keys, global_max)
FnPlot(global_max) ==
    /\ pc = "fn"
    /\ new_chart' = plotBubbleChart(df, keys, global_max)
    /\ pc' = "fn_plot"
    /\ UNCHANGED <<df, x_sel, x_log, y_sel, y_log, countries_sel, slider,
                   session_year, keys, text, selection, component,
                   component_value, c, notice, first, last, y, start, stop, emitted,
                   nevents>>

\* first, last = minmaxYear(df, keys['x'], keys['y'])
FnMinMax ==
    /\ pc = "fn"
    /\ first' = minmaxYear(df, keys.x, keys.y).first
    /\ last' = minmaxYear(df, keys.x, keys.y).last
    /\ pc' = "fn_minmax"
    /\ UNCHANGED <<df, x_sel, x_log, y_sel, y_log, countries_sel, slider,
                   session_year, keys, text, new_chart, selection, component,
                   component_value, c, notice, y, start, stop, emitted, nevents>>

\* Lines 207-220 for a selection of points of the chart the component shows.
FnMatch(points) ==
    LET comp == plotBubbleChart(df, keys, FALSE)
        sel  == { Constraint(comp, r) : r \in points }
    IN  /\ pc = "fn"
        /\ points # {}
        /\ points \subseteq comp.source
        /\ component' = comp
        /\ component_value' = sel
        /\ selection' = sel
        /\ c' = matchCountries(df, keys, sel)
        /\ notice' = "success"
        /\ pc' = "fn_match"
        /\ UNCHANGED <<df, x_sel, x_log, y_sel, y_log, countries_sel, slider,
                       session_year, keys, text, new_chart, first, last, y,
                       start, stop, emitted, nevents>>

NextFn ==
    \/ \E g \in BOOLEAN : FnPlot(g)
    \/ FnMinMax
    \/ \E points \in SUBSET df : FnMatch(points)

SpecFn == InitFn /\ [][NextFn]_vars

----------------------------------------------------------------------------
\* Helpers of the properties.
SetMin(S) == CHOOSE m \in S : \A v \in S : m <= v
SetMax(S) == CHOOSE m \in S : \A v \in S : m >= v

\* The years in which a column of df has a value.
ValidYears(col) == { r.Year : r \in { q \in df : q[col] # NaN } }

\* A row belongs to the filtered view of the keys k.
InView(r, k) ==
    /\ r.Year = k.year
    /\ r[k.x] # NaN
    /\ r[k.y] # NaN
    /\ (k.countries = {} \/ r.Country \in k.countries)

\* The positions of a run before line 172.
BeforeRange == {"l87", "l115", "l116", "l150", "l165"}

\* The persisted year, when there is one.
Persisted == CHOOSE v \in session_year : TRUE

----------------------------------------------------------------------------
\* C1: the rows of the chart plotBubbleChart builds are exactly the rows of the
\* table of the year keys.year, with a value in the x and in the y column, of a
\* selected country when countries are selected.
C1_FilterCorrectness ==
    pc = "fn_plot" => new_chart.source = { r \in df : InView(r, keys) }

\* A chart that keeps one row and drops a row of the same year and of a
\* selected country for its missing value.
C1_Witness ==
    /\ pc = "fn_plot"
    /\ new_chart.source # {}
    /\ keys.countries # {}
    /\ \E r \in df \ new_chart.source :
          r.Year = keys.year /\ r.Country \in keys.countries

\* C2: when both columns have a value somewhere, the first that a run computes
\* at line 172 is the larger of the two columns' first years with a value and
\* last the smaller of their last years.
C2_AnimationRange ==
    LET X == ValidYears(x_sel)
        Y == ValidYears(y_sel)
    IN  (pc \notin BeforeRange /\ X # {} /\ Y # {}) =>
            /\ first = SetMax({SetMin(X), SetMin(Y)})
            /\ last = SetMin({SetMax(X), SetMax(Y)})

\* Start pressed on columns whose first years differ, with a year in common.
C2_Witness ==
    /\ start
    /\ pc = "l175"
    /\ ValidYears(x_sel) # {}
    /\ ValidYears(y_sel) # {}
    /\ SetMin(ValidYears(x_sel)) # SetMin(ValidYears(y_sel))
    /\ first <= last

\* The years a run in which Start was pressed has emitted, at every position
\* of the run from line 172 on.
AnimationOrder ==
    LET n == last - first + 1
    IN  (start /\ pc \notin BeforeRange) =>
            IF notice = "exception" \/ first > last
            THEN /\ pc \notin {"l175", "l178"}
                 /\ Len(emitted) <= 1
                 /\ Len(emitted) = 1 => (stop /\ pc \in {"l207", "l212", "done"})
            ELSE /\ \A i \in 1..Len(emitted) : i <= n => emitted[i] = first + i - 1
                 /\ pc \in {"l175", "l178"} =>
                       /\ y = first + Len(emitted)
                       /\ y <= last
                 /\ pc = "l178" =>
                       /\ keys.year = y
                       /\ text = y
                       /\ session_year = {y}
                 /\ pc \in {"l183", "l207", "l212", "done"} =>
                       /\ Len(emitted) >= n
                       /\ keys.year = last
                       /\ text = last
                       /\ session_year = {last}
                 /\ Len(emitted) <= n + 1
                 /\ Len(emitted) = n + 1 =>
                       /\ stop
                       /\ pc \in {"l207", "l212", "done"}
                       /\ emitted[n + 1] = last
                 /\ (pc \in {"l207", "l212", "done"} /\ ~stop) => Len(emitted) = n

C4_StopNotYearReached ==
    [][ (start /\ pc = "l178" /\ stop' /\ pc' = "l87") =>
            session_year # {text} ]_vars

\* C4 as amended: while the animation runs the persisted year is the year it
\* has reached.  In a run in which Stop was pressed and that comes to line 181
\* with a year persisted, line 182 sets keys['year'] to that year, whatever
\* the slider shows, and line 183 emits the chart with global_max=True of that
\* year, once, after the charts of the run's own iterations if Start was
\* pressed too; when no year is persisted nothing is emitted and the run draws
\* the label and the chart of the widgets' values as every run does.  A run of
\* Stop alone, and line 183 in every run, leave the persisted year as it is.
C4_StopRestoresPersisted ==
    /\ []((start /\ (pc = "l178" \/ (pc \in {"l175", "l183"} /\ emitted # <<>>))) =>
            session_year = {text})
    /\ [](stop =>
            /\ (pc \in BeforeRange /\ ~start) => emitted = <<>>
            /\ pc = "l183" =>
                  /\ session_year # {}
                  /\ keys.year = Persisted
                  /\ ~start => emitted = <<>>
            /\ (pc \in {"l207", "l212", "done"} /\ notice # "exception") =>
                  IF session_year # {}
                  THEN /\ keys.year = Persisted
                       /\ Len(emitted) = 1 + (IF start /\ first <= last
                                              THEN last - first + 1 ELSE 0)
                       /\ emitted[Len(emitted)] = Persisted
                       /\ new_chart = plotBubbleChart(df,
                             [ x |-> x_sel, y |-> y_sel, x_log |-> x_log,
                               y_log |-> y_log, year |-> Persisted,
                               countries |-> countries_sel ], TRUE)
                  ELSE /\ emitted = <<>>
                       /\ keys.year = slider.value
                       /\ text = slider.value
                       /\ new_chart = plotBubbleChart(df, keys, FALSE))
    /\ [][ ((stop' /\ ~start') \/ pc = "l183") =>
              session_year' = session_year ]_vars

\* A run of Stop alone, pressed before the animation had reached its last
\* year, that has emitted the chart of the year the animation had reached.
C4_Witness ==
    /\ stop
    /\ ~start
    /\ pc = "done"
    /\ session_year # {}
    /\ emitted = <<Persisted>>
    /\ Persisted < last

\* C5 as stated: after a run that a drag of the slider began, the persisted
\* year is the year of the slider (here in a session of this one event).
C5_ScrubPersists ==
    (~start /\ ~stop /\ nevents = 1 /\ pc = "done"
                       /\ slider.value # SliderDefault) =>
        session_year = {slider.value}

\* C5 as amended: only lines 175-177 of the animation write the persisted year,
\* and they write the iteration's year; a run that a widget began leaves it as
\* it is; every run reads the slider's default from the persisted year when
\* there is one, and takes 2015 otherwise.
C5_PersistedYear ==
    [][ /\ session_year' # session_year => (pc = "l175" /\ pc' = "l178")
        /\ (pc = "l175" /\ pc' = "l178") => session_year' = {y}
        /\ (pc = "l87" /\ pc' = "l115") =>
              slider'.default = IF session_year = {} THEN SliderDefault
                                ELSE Persisted ]_vars

\* After a drag of the slider the persisted year is not the year of the slider.
C5_Witness ==
    /\ ~start
    /\ ~stop
    /\ pc = "done"
    /\ session_year # {}
    /\ slider.value \notin session_year
    /\ slider.default \in session_year

\* C6 as stated: the matched countries are the countries of the rows of the
\* filtered view whose x value is among the x values of the constraints.
C6_SelectionFromView ==
    pc = "fn_match" =>
        c = { r.Country : r \in { q \in df : InView(q, keys)
                                            /\ q[keys.x] \in { p.x : p \in selection } } }

\* C7 as stated: Start on columns with no year in common runs no iteration,
\* surfaces an EmptyRange message and raises nothing.
C7_EmptyRange ==
    LET X == ValidYears(x_sel)
        Y == ValidYears(y_sel)
        empty == \/ X = {}
                 \/ Y = {}
                 \/ SetMax({SetMin(X), SetMin(Y)}) > SetMin({SetMax(X), SetMax(Y)})
    IN  (start /\ empty /\ pc \notin BeforeRange) =>
            /\ pc \in {"l207", "l212", "done"}
            /\ emitted = <<>>
            /\ notice = "EmptyRange"

\* C8: the domains of a chart built with global_max=True are those of the
\* chart built for any other year from the same table, columns and countries.
C8_GlobalScaleFixed ==
    (pc = "fn_plot" /\ new_chart.size_scale.domain # AutoScale) =>
        \A yr \in ScrubYears :
            LET other == plotBubbleChart(df, [ keys EXCEPT !.year = yr ], TRUE)
            IN  /\ other.x_scale = new_chart.x_scale
                /\ other.y_scale = new_chart.y_scale
                /\ other.size_scale = new_chart.size_scale

\* A chart with global_max=True whose x domain is wider than the values of its
\* own rows.
C8_Witness ==
    /\ pc = "fn_plot"
    /\ new_chart.size_scale.domain # AutoScale
    /\ new_chart.source # {}
    /\ new_chart.x_scale.domain[1] # NaN
    /\ new_chart.x_scale.domain # <<SeriesMin(new_chart.source, keys.x),
                                    SeriesMax(new_chart.source, keys.x)>>

\* C9 as stated: keys['year'] and the persisted year lie within the years of
\* the table.
C9_YearInDataset ==
    LET years == { r.Year : r \in df }
    IN  /\ keys.year \in SetMin(years)..SetMax(years)
        /\ session_year \subseteq SetMin(years)..SetMax(years)

\* C10 as stated: an iteration that has executed lines 175-177 goes on to emit
\* its chart before anything else happens, and then the label, keys['year'],
\* the persisted year and the year of the chart are the iteration's year.
C10_StepAtomicity ==
    [][ pc = "l178" =>
          /\ StepChart
          /\ text' = y
          /\ keys'.year = y
          /\ session_year' = {y}
          /\ new_chart' = plotBubbleChart(df, [ keys EXCEPT !.year = y ], TRUE) ]_vars

====
